---- MODULE Spec2Model ----
(***************************************************************************)
(* State-machine model of the chat relay of Mirc25/ultimo.                 *)
(*                                                                         *)
(*   src/server.js          registry onlineUsers, rate limiter / mute      *)
(*                          guard, room and direct routing, histories      *)
(*   src/unnamed/part_000   registry connectedUsers / nicknameToSocketId,  *)
(*                          room and direct routing                        *)
(*                                                                         *)
(* Strings are sequences of UTF-16 code units, so that toLowerCase(),      *)
(* Array.prototype.sort() and join('-') are computed, not assumed.         *)
(* Every action is one socket.io event handler run to completion (the      *)
(* event loop is single threaded).  socket.disconnect(true) runs the       *)
(* socket's 'disconnect' listeners before it returns, so a handler that    *)
(* forces a disconnect includes the disconnect handler.                    *)
(***************************************************************************)
EXTENDS Integers, Sequences, FiniteSets, TLC

VARIABLES
    sockets,              \* connection id -> "new" | "open" | "closed"
    rooms,                \* connection id -> set of room names it is joined to
    now,                  \* Date.now(), milliseconds
    used,                 \* events handled so far, by kind (bounds the run)
    onlineUsers,          \* server.js:23, insertion-ordered entries
    provinceChatHistory,  \* server.js:24, room name -> sequence of messages
    privateChatHistory,   \* server.js:25, chat id -> sequence of messages
    MESSAGE_LIMITS,       \* server.js:28, connection id -> timestamps
    MUTED_USERS,          \* server.js:29, connection id -> unmute time
    connectedUsers,       \* part_000:27, insertion-ordered entries
    nicknameToSocketId,   \* part_000:29, nickname -> connection id
    out,                  \* what the last handler emitted, in order
    last,                 \* the event the last handler was run for
    calls                 \* per connection, its latest checkRateLimit calls

vars == <<sockets, rooms, now, used, onlineUsers, provinceChatHistory,
          privateChatHistory, MESSAGE_LIMITS, MUTED_USERS, connectedUsers,
          nicknameToSocketId, out, last, calls>>

serverVars == <<onlineUsers, provinceChatHistory, privateChatHistory,
                MESSAGE_LIMITS, MUTED_USERS>>

partVars == <<connectedUsers, nicknameToSocketId>>

----------------------------------------------------------------------------
(* Bounds of the exploration.                                              *)

MaxConns == 3
MaxRegs == 3
MaxMsgs == 1
MaxHist == 1
MaxGateRegs == 2
MaxGateMsgs == 4
MaxGateHist == 1
MaxPartRegs == 3
MaxPartMsgs == 1
MaxRateTicks == 4
MaxCalls == 5
MaxRoomRegs == 3
MaxRoomMsgs == 2
MaxLifeRegs == 3
MaxKeyRegs == 4
MaxKeyMsgs == 2

Conns == 1..MaxConns

----------------------------------------------------------------------------
(* Program constants, server.js:31-33.                                     *)

MAX_MESSAGES_PER_PERIOD == 2
PERIOD_SECONDS == 1
MUTE_DURATION_MS == 1 * 60 * 1000

----------------------------------------------------------------------------
(* Strings.                                                                *)

Undefined == <<-1>>                 \* a field absent from the payload

StrA == <<97>>                      \* "a"
StrUpperA == <<65>>                 \* "A"
StrB == <<98>>                      \* "b"
StrC == <<99>>                      \* "c"
StrADashB == <<97, 45, 98>>         \* "a-b"
StrBDashC == <<98, 45, 99>>         \* "b-c"
StrM == <<109>>                     \* "m"
StrF == <<102>>                     \* "f"
StrT == <<116>>                     \* "t"
StrX == <<88>>                      \* "X"
StrY == <<89>>                      \* "Y"
Desconocido == <<68, 101, 115, 99, 111, 110, 111, 99, 105, 100, 111>>
StrOther == <<111, 116, 104, 101, 114>>
StrUnknown == <<117, 110, 107, 110, 111, 119, 110>>

\* socket.id of connection c, as the string it is in room names and payloads
SocketId(c) == <<115, 48 + c>>

toLowerCase(s) ==
    [i \in DOMAIN s |-> IF s[i] \in 65..90 THEN s[i] + 32 ELSE s[i]]

RECURSIVE escapeText(_)
escapeText(s) ==
    IF s = <<>> THEN <<>>
    ELSE LET h == s[1]
             e == CASE h = 38 -> <<38, 97, 109, 112, 59>>
                    [] h = 62 -> <<38, 103, 116, 59>>
                    [] OTHER -> <<h>>
         IN e \o escapeText(Tail(s))

\* sanitize-html on markup-free text: null/undefined gives '', '&' and '>'
\* are escaped, everything else is kept.
sanitizeHtml(s) == IF s = Undefined THEN <<>> ELSE escapeText(s)

\* !x for a string or undefined x
Falsy(s) == s = Undefined \/ s = <<>>

----------------------------------------------------------------------------
(* Maps and insertion-ordered objects.                                     *)

MapHas(m, k) == k \in DOMAIN m
MapSet(m, k, v) == [x \in DOMAIN m \cup {k} |-> IF x = k THEN v ELSE m[x]]
MapDelete(m, k) == [x \in DOMAIN m \ {k} |-> m[x]]
EmptyMap == <<>>

\* entries are <<key, value>> records in insertion order
Entry(k, v) == [key |-> k, val |-> v]
ObjHas(o, k) == \E i \in DOMAIN o : o[i].key = k
ObjGet(o, k) == o[CHOOSE i \in DOMAIN o : o[i].key = k].val
ObjSet(o, k, v) ==
    IF ObjHas(o, k)
    THEN [i \in DOMAIN o |-> IF o[i].key = k THEN Entry(k, v) ELSE o[i]]
    ELSE Append(o, Entry(k, v))
ObjDelete(o, k) == SelectSeq(o, LAMBDA e : e.key # k)
ObjValues(o) == [i \in DOMAIN o |-> o[i].val]

NoUser == [nickname |-> Undefined]

----------------------------------------------------------------------------
(* socket.io: who receives an emission.                                    *)

Connected == {c \in Conns : sockets[c] = "open"}
Members(rs, room) == {c \in Conns : room \in rs[c]}

\* socket.emit(ev, data)
EmitSocket(c, ev, data) ==
    [ev |-> ev, via |-> "socket", room |-> SocketId(c), rcpt |-> {c},
     data |-> data]
\* io.emit in place of io.to(room).emit
EmitRoomToAll(rs, room, ev, data) ==
    [ev |-> ev, via |-> "room", room |-> room, rcpt |-> Connected,
     data |-> data]
\* io.to(room).emit(ev, data), with the room memberships rs at that point
EmitRoom(rs, room, ev, data) ==
    [ev |-> ev, via |-> "room", room |-> room, rcpt |-> Members(rs, room),
     data |-> data]
\* io.emit(ev, data), with the connected sockets cs at that point
EmitAll(cs, ev, data) ==
    [ev |-> ev, via |-> "all", room |-> <<>>, rcpt |-> cs, data |-> data]

----------------------------------------------------------------------------
(* server.js: checkRateLimit.                                              *)

CeilDiv(a, b) == (a + b - 1) \div b

StatusMuted(unMuteTime, t) ==
    [kind |-> "muted",
     minutes |-> CeilDiv(CeilDiv(unMuteTime - t, 1000), 60)]
StatusExceeded == [kind |-> "exceeded", minutes |-> MUTE_DURATION_MS \div 60000]

\* the filter keeping a timestamp exactly one period old
recentTimestampsClosed(limits, socketId, t) ==
    SelectSeq(IF MapHas(limits, socketId) THEN limits[socketId] ELSE <<>>,
              LAMBDA timestamp : (t - timestamp) <= (PERIOD_SECONDS * 1000))
recentTimestamps(limits, socketId, t) ==
    SelectSeq(IF MapHas(limits, socketId) THEN limits[socketId] ELSE <<>>,
              LAMBDA timestamp : (t - timestamp) < (PERIOD_SECONDS * 1000))

\* the last n elements of s: s.slice(-n)
SliceLast(s, n) ==
    IF Len(s) <= n THEN s ELSE SubSeq(s, Len(s) - n + 1, Len(s))

\* server.js:41, now < unMuteTime
stillMutedInclusive(t, unMuteTime) == t <= unMuteTime
stillMuted(t, unMuteTime) == t < unMuteTime

\* server.js:64, recentTimestamps.length >= MAX_MESSAGES_PER_PERIOD
limitExceededStrict(recent) == Len(recent) > MAX_MESSAGES_PER_PERIOD
limitExceeded(recent) == Len(recent) >= MAX_MESSAGES_PER_PERIOD

\* checkRateLimit restarting the mute at every message of a muted socket
checkRateLimitExtending(limits, muted, rs, socketId, t) ==
    IF MapHas(muted, socketId) /\ stillMuted(t, muted[socketId])
    THEN [ok |-> FALSE, limits |-> limits,
          muted |-> MapSet(muted, socketId, t + MUTE_DURATION_MS),
          out |-> <<EmitRoom(rs, SocketId(socketId), "status message",
                             StatusMuted(muted[socketId], t))>>]
    ELSE LET muted1 == MapDelete(muted, socketId)
             recent == recentTimestamps(limits, socketId, t)
         IN IF limitExceeded(recent)
            THEN [ok |-> FALSE, limits |-> limits,
                  muted |-> MapSet(muted1, socketId, t + MUTE_DURATION_MS),
                  out |-> <<EmitRoom(rs, SocketId(socketId), "status message",
                                     StatusExceeded)>>]
            ELSE [ok |-> TRUE,
                  limits |-> MapSet(limits, socketId,
                                    SliceLast(Append(recent, t),
                                              MAX_MESSAGES_PER_PERIOD)),
                  muted |-> muted1, out |-> <<>>]

\* The result of checkRateLimit(socketId) at time t in the state given by
\* the two maps: the value returned, the maps afterwards, what was emitted.
checkRateLimit(limits, muted, rs, socketId, t) ==
    IF MapHas(muted, socketId) /\ stillMuted(t, muted[socketId])
    THEN [ok |-> FALSE, limits |-> limits, muted |-> muted,
          out |-> <<EmitRoom(rs, SocketId(socketId), "status message",
                             StatusMuted(muted[socketId], t))>>]
    ELSE LET muted1 == MapDelete(muted, socketId)
             recent == recentTimestamps(limits, socketId, t)
         IN IF limitExceeded(recent)
            THEN [ok |-> FALSE, limits |-> limits,
                  muted |-> MapSet(muted1, socketId, t + MUTE_DURATION_MS),
                  out |-> <<EmitRoom(rs, SocketId(socketId), "status message",
                                     StatusExceeded)>>]
            ELSE [ok |-> TRUE,
                  limits |-> MapSet(limits, socketId,
                                    SliceLast(Append(recent, t),
                                              MAX_MESSAGES_PER_PERIOD)),
                  muted |-> muted1, out |-> <<>>]

----------------------------------------------------------------------------
(* server.js: getPrivateChatId and getSenderData.                          *)

\* a < b in the order of Array.prototype.sort(): by UTF-16 code units
RECURSIVE StrLess(_, _)
StrLess(a, b) ==
    IF b = <<>> THEN FALSE
    ELSE IF a = <<>> THEN TRUE
    ELSE IF a[1] # b[1] THEN a[1] < b[1]
    ELSE StrLess(Tail(a), Tail(b))

getPrivateChatId(user1, user2) ==
    IF StrLess(user2, user1) THEN user2 \o <<45>> \o user1
    ELSE user1 \o <<45>> \o user2

getSenderData(users, socketId) ==
    IF ObjHas(users, socketId)
    THEN [sender |-> ObjGet(users, socketId).nickname,
          senderGender |-> ObjGet(users, socketId).gender]
    ELSE [sender |-> Desconocido, senderGender |-> StrOther]

\* new Date().toLocaleTimeString('es-AR', {hour, minute}): the minute of
\* the day
TimeString(t) == (t \div 60000) % 1440

userList(users) ==
    [i \in DOMAIN users |->
        [nickname |-> users[i].val.nickname, gender |-> users[i].val.gender,
         province |-> users[i].val.province, socketId |-> users[i].val.socketId]]

HistLen(h) ==
    LET RECURSIVE Sum(_)
        Sum(ks) == IF ks = {} THEN 0
                   ELSE LET k == CHOOSE x \in ks : TRUE
                        IN Len(h[k]) + Sum(ks \ {k})
    IN Sum(DOMAIN h)

TotalHist == HistLen(provinceChatHistory) + HistLen(privateChatHistory)

\* unshift in place of push
Unshift(h, k, m) == MapSet(h, k, <<m>> \o (IF MapHas(h, k) THEN h[k] ELSE <<>>))
Push(h, k, m) == MapSet(h, k, Append(IF MapHas(h, k) THEN h[k] ELSE <<>>, m))

----------------------------------------------------------------------------
(* The event a handler was run for.                                        *)

Event(op, c, arg, prior, ok) ==
    [op |-> op, id |-> c, arg |-> arg, prior |-> prior, ok |-> ok]

PriorServer(c) == IF ObjHas(onlineUsers, c) THEN ObjGet(onlineUsers, c) ELSE NoUser

----------------------------------------------------------------------------
(* Initial state: the server has started, nobody has connected.            *)

Init ==
    /\ sockets = [c \in Conns |-> "new"]
    /\ rooms = [c \in Conns |-> {}]
    /\ now = 0
    /\ used = [regs |-> 0, msgs |-> 0, ticks |-> 0]
    /\ onlineUsers = <<>>
    /\ provinceChatHistory = EmptyMap
    /\ privateChatHistory = EmptyMap
    /\ MESSAGE_LIMITS = EmptyMap
    /\ MUTED_USERS = EmptyMap
    /\ connectedUsers = <<>>
    /\ nicknameToSocketId = EmptyMap
    /\ out = <<>>
    /\ last = Event("init", 0, <<>>, NoUser, TRUE)
    /\ calls = [c \in Conns |-> <<>>]

----------------------------------------------------------------------------
(* server.js: io.on('connection') and socket.on('disconnect').             *)

\* Ids are assigned by the transport and never reused: connection c opens
\* once all ids below it have been handed out.
Connect(c) ==
    /\ sockets[c] = "new"
    /\ \A b \in Conns : b < c => sockets[b] # "new"
    /\ sockets' = [sockets EXCEPT ![c] = "open"]
    /\ rooms' = [rooms EXCEPT ![c] = {SocketId(c)}]
    /\ MESSAGE_LIMITS' = MapDelete(MESSAGE_LIMITS, c)
    /\ MUTED_USERS' = MapDelete(MUTED_USERS, c)
    /\ out' = <<>>
    /\ last' = Event("connection", c, <<>>, NoUser, TRUE)
    /\ UNCHANGED <<now, used, onlineUsers, provinceChatHistory,
                   privateChatHistory, calls>>
    /\ UNCHANGED partVars

\* The state after socket c is closed and its 'disconnect' handler has run,
\* starting from the registry users and the emissions before.  The socket
\* has left its rooms and the namespace when the handler runs.
\* the handler without its delete of the mute deadline
disconnectKeepMute(c, users, before) ==
    LET users1 == ObjDelete(users, c)
    IN [sockets |-> [sockets EXCEPT ![c] = "closed"],
        rooms |-> [rooms EXCEPT ![c] = {}],
        onlineUsers |-> users1,
        MESSAGE_LIMITS |-> MapDelete(MESSAGE_LIMITS, c),
        MUTED_USERS |-> MUTED_USERS,
        out |-> IF ObjHas(users, c)
                THEN Append(before, EmitAll(Connected \ {c}, "user list",
                                            userList(users1)))
                ELSE before]
\* the handler without its two deletes of rate state
disconnectKeepRate(c, users, before) ==
    LET users1 == ObjDelete(users, c)
    IN [sockets |-> [sockets EXCEPT ![c] = "closed"],
        rooms |-> [rooms EXCEPT ![c] = {}],
        onlineUsers |-> users1,
        MESSAGE_LIMITS |-> MESSAGE_LIMITS,
        MUTED_USERS |-> MUTED_USERS,
        out |-> IF ObjHas(users, c)
                THEN Append(before, EmitAll(Connected \ {c}, "user list",
                                            userList(users1)))
                ELSE before]
disconnect(c, users, before) ==
    LET users1 == ObjDelete(users, c)
    IN [sockets |-> [sockets EXCEPT ![c] = "closed"],
        rooms |-> [rooms EXCEPT ![c] = {}],
        onlineUsers |-> users1,
        MESSAGE_LIMITS |-> MapDelete(MESSAGE_LIMITS, c),
        MUTED_USERS |-> MapDelete(MUTED_USERS, c),
        out |-> IF ObjHas(users, c)
                THEN Append(before, EmitAll(Connected \ {c}, "user list",
                                            userList(users1)))
                ELSE before]

Disconnect(c) ==
    /\ sockets[c] = "open"
    /\ LET r == disconnect(c, onlineUsers, <<>>)
       IN /\ sockets' = r.sockets
          /\ rooms' = r.rooms
          /\ onlineUsers' = r.onlineUsers
          /\ MESSAGE_LIMITS' = r.MESSAGE_LIMITS
          /\ MUTED_USERS' = r.MUTED_USERS
          /\ out' = r.out
    /\ last' = Event("disconnect", c, <<>>, PriorServer(c), TRUE)
    /\ UNCHANGED <<now, used, provinceChatHistory, privateChatHistory, calls>>
    /\ UNCHANGED partVars

----------------------------------------------------------------------------
(* server.js: socket.on('register').                                       *)

existingUserExact(users, sanitizedNickname) ==
    \E i \in DOMAIN users : users[i].val.nickname = sanitizedNickname
existingUser(users, sanitizedNickname) ==
    \E i \in DOMAIN users :
        toLowerCase(users[i].val.nickname) = toLowerCase(sanitizedNickname)

Register(c, data) ==
    /\ sockets[c] = "open"
    /\ used' = [used EXCEPT !.regs = @ + 1]
    /\ LET sanitizedNickname == sanitizeHtml(data.nickname)
           sanitizedGender == sanitizeHtml(data.gender)
           sanitizedProvince == sanitizeHtml(data.province)
       IN IF existingUser(onlineUsers, sanitizedNickname)
          THEN LET r == disconnect(c, onlineUsers,
                            <<EmitSocket(c, "nickname in use", sanitizedNickname)>>)
               IN /\ sockets' = r.sockets
                  /\ rooms' = r.rooms
                  /\ onlineUsers' = r.onlineUsers
                  /\ MESSAGE_LIMITS' = r.MESSAGE_LIMITS
                  /\ MUTED_USERS' = r.MUTED_USERS
                  /\ out' = r.out
          ELSE LET user == [nickname |-> sanitizedNickname,
                            gender |-> sanitizedGender,
                            province |-> sanitizedProvince,
                            socketId |-> SocketId(c)]
                   users1 == ObjSet(onlineUsers, c, user)
               IN /\ onlineUsers' = users1
                  /\ rooms' = [rooms EXCEPT ![c] = @ \cup {sanitizedProvince}]
                  /\ out' = <<EmitSocket(c, "info accepted", <<>>),
                              EmitAll(Connected, "user list", userList(users1))>>
                             \o IF MapHas(provinceChatHistory, sanitizedProvince)
                                THEN <<EmitSocket(c, "province history",
                                         [room |-> sanitizedProvince,
                                          history |-> provinceChatHistory[sanitizedProvince]])>>
                                ELSE <<>>
                  /\ UNCHANGED <<sockets, MESSAGE_LIMITS, MUTED_USERS>>
    /\ last' = Event("register", c, data, PriorServer(c), TRUE)
    /\ UNCHANGED <<now, provinceChatHistory, privateChatHistory, calls>>
    /\ UNCHANGED partVars

----------------------------------------------------------------------------
(* server.js: the four message handlers.                                   *)

userProvince(users, c) ==
    IF ObjHas(users, c) THEN ObjGet(users, c).province ELSE StrUnknown

\* the handler with the rate gate consulted but not obeyed
RoomMessageUngated(op, c, body) ==
    /\ sockets[c] = "open"
    /\ used' = [used EXCEPT !.msgs = @ + 1]
    /\ LET rl == checkRateLimit(MESSAGE_LIMITS, MUTED_USERS, rooms, c, now)
           sd == getSenderData(onlineUsers, c)
           province == userProvince(onlineUsers, c)
           message == IF op = "chat message"
                      THEN [sender |-> sd.sender, senderGender |-> sd.senderGender,
                            text |-> sanitizeHtml(body),
                            timestamp |-> TimeString(now),
                            room |-> province, type |-> "text"]
                      ELSE [sender |-> sd.sender, senderGender |-> sd.senderGender,
                            file |-> body,
                            timestamp |-> TimeString(now),
                            room |-> province, type |-> "image"]
       IN /\ MESSAGE_LIMITS' = rl.limits
          /\ MUTED_USERS' = rl.muted
          /\ last' = Event(op, c, [body |-> body], PriorServer(c), rl.ok)
          /\ provinceChatHistory' = Push(provinceChatHistory, province, message)
          /\ out' = rl.out \o <<EmitRoom(rooms, province, "chat message", message)>>
    /\ UNCHANGED <<sockets, rooms, now, onlineUsers, privateChatHistory, calls>>
    /\ UNCHANGED partVars


\* 'chat message' (type "text", body sanitized) and 'image message'
\* (type "image", body as sent)
RoomMessage(op, c, body) ==
    /\ sockets[c] = "open"
    /\ used' = [used EXCEPT !.msgs = @ + 1]
    /\ LET rl == checkRateLimit(MESSAGE_LIMITS, MUTED_USERS, rooms, c, now)
           sd == getSenderData(onlineUsers, c)
           province == userProvince(onlineUsers, c)
           message == IF op = "chat message"
                      THEN [sender |-> sd.sender, senderGender |-> sd.senderGender,
                            text |-> sanitizeHtml(body),
                            timestamp |-> TimeString(now),
                            room |-> province, type |-> "text"]
                      ELSE [sender |-> sd.sender, senderGender |-> sd.senderGender,
                            file |-> body,
                            timestamp |-> TimeString(now),
                            room |-> province, type |-> "image"]
       IN /\ MESSAGE_LIMITS' = rl.limits
          /\ MUTED_USERS' = rl.muted
          /\ last' = Event(op, c, [body |-> body], PriorServer(c), rl.ok)
          /\ IF ~rl.ok
             THEN /\ out' = rl.out
                  /\ UNCHANGED provinceChatHistory
             ELSE /\ provinceChatHistory' = Push(provinceChatHistory, province, message)
                  /\ out' = rl.out \o <<EmitRoom(rooms, province, "chat message", message)>>
    /\ UNCHANGED <<sockets, rooms, now, onlineUsers, privateChatHistory, calls>>
    /\ UNCHANGED partVars

ChatMessage(c, text) == RoomMessage("chat message", c, text)

ImageMessage(c, file) == RoomMessage("image message", c, file)

recipientUser(users, to) ==
    LET hits == {i \in DOMAIN users : users[i].val.nickname = to}
    IN IF hits = {} THEN NoUser
       ELSE users[CHOOSE i \in hits : \A j \in hits : i <= j].val

\* 'private message' (type "text", body sanitized) and 'private image
\* message' (type "image", body as sent)
DirectMessage(op, c, to, body) ==
    /\ sockets[c] = "open"
    /\ used' = [used EXCEPT !.msgs = @ + 1]
    /\ LET rl == checkRateLimit(MESSAGE_LIMITS, MUTED_USERS, rooms, c, now)
           senderData == getSenderData(onlineUsers, c)
           recipient == recipientUser(onlineUsers, to)
           message == IF op = "private message"
                      THEN [sender |-> senderData.sender,
                            senderGender |-> senderData.senderGender,
                            text |-> sanitizeHtml(body),
                            timestamp |-> TimeString(now),
                            to |-> recipient.nickname, type |-> "text"]
                      ELSE [sender |-> senderData.sender,
                            senderGender |-> senderData.senderGender,
                            file |-> body,
                            timestamp |-> TimeString(now),
                            to |-> recipient.nickname, type |-> "image"]
           privateChatId == getPrivateChatId(senderData.sender, recipient.nickname)
       IN /\ MESSAGE_LIMITS' = rl.limits
          /\ MUTED_USERS' = rl.muted
          /\ last' = Event(op, c, [to |-> to, body |-> body], PriorServer(c), rl.ok)
          /\ IF ~rl.ok
             THEN /\ out' = rl.out
                  /\ UNCHANGED privateChatHistory
             ELSE IF Falsy(senderData.sender) \/ recipient = NoUser
             THEN /\ out' = rl.out
                  /\ UNCHANGED privateChatHistory
             ELSE /\ privateChatHistory' = Push(privateChatHistory, privateChatId, message)
                  /\ out' = rl.out \o
                            <<EmitRoom(rooms, recipient.socketId, "private message", message),
                              EmitRoom(rooms, SocketId(c), "private message", message)>>
    /\ UNCHANGED <<sockets, rooms, now, onlineUsers, provinceChatHistory, calls>>
    /\ UNCHANGED partVars

PrivateMessage(c, to, text) == DirectMessage("private message", c, to, text)

PrivateImageMessage(c, to, file) == DirectMessage("private image message", c, to, file)

----------------------------------------------------------------------------
(* Time passes between two events.                                         *)

Tick(d) ==
    /\ used' = [used EXCEPT !.ticks = @ + 1]
    /\ now' = now + d
    /\ out' = <<>>
    /\ last' = Event("tick", 0, <<>>, NoUser, TRUE)
    /\ UNCHANGED <<sockets, rooms, calls>>
    /\ UNCHANGED serverVars
    /\ UNCHANGED partVars

----------------------------------------------------------------------------
(* server.js: a message event arrives and checkRateLimit decides on it.    *)
(* This is the first statement of each of the four message handlers; the   *)
(* action applies it alone and records the call.                           *)

CheckRateLimit(c) ==
    /\ sockets[c] = "open"
    /\ LET rl == checkRateLimit(MESSAGE_LIMITS, MUTED_USERS, rooms, c, now)
       IN /\ MESSAGE_LIMITS' = rl.limits
          /\ MUTED_USERS' = rl.muted
          /\ out' = rl.out
          /\ last' = Event("checkRateLimit", c, <<>>, NoUser, rl.ok)
          /\ calls' = [calls EXCEPT ![c] = SliceLast(Append(@,
                          [t |-> now, ok |-> rl.ok,
                           clear |-> /\ ~MapHas(MUTED_USERS, c)
                                     /\ recentTimestamps(MESSAGE_LIMITS, c, now) = <<>>,
                           before |-> IF MapHas(MUTED_USERS, c) THEN MUTED_USERS[c] ELSE -1,
                           until |-> IF MapHas(rl.muted, c) THEN rl.muted[c] ELSE -1,
                           window |-> IF MapHas(rl.limits, c) THEN rl.limits[c] ELSE <<>>]),
                          MaxCalls)]
    /\ UNCHANGED <<sockets, rooms, now, used, onlineUsers, provinceChatHistory,
                   privateChatHistory>>
    /\ UNCHANGED partVars

----------------------------------------------------------------------------
(* server.js: registry and routing, all handlers, one instant.             *)

Nicknames == {StrA, StrUpperA, StrB, StrC}
Genders == {StrM}
Provinces == {StrX, SocketId(1)}
Texts == {StrT}

RegisterData ==
    [nickname : Nicknames, gender : Genders, province : Provinces]

Next ==
    \/ \E c \in Conns : Connect(c)
    \/ \E c \in Conns : Disconnect(c)
    \/ \E c \in Conns, data \in RegisterData :
          used.regs < MaxRegs /\ Register(c, data)
    \/ \E c \in Conns, text \in Texts :
          used.msgs < MaxMsgs /\ ChatMessage(c, text) /\ TotalHist' <= MaxHist
    \/ \E c \in Conns, file \in Texts :
          used.msgs < MaxMsgs /\ ImageMessage(c, file) /\ TotalHist' <= MaxHist
    \/ \E c \in Conns, to \in Nicknames, text \in Texts :
          used.msgs < MaxMsgs /\ PrivateMessage(c, to, text) /\ TotalHist' <= MaxHist
    \/ \E c \in Conns, to \in Nicknames, file \in Texts :
          used.msgs < MaxMsgs /\ PrivateImageMessage(c, to, file) /\ TotalHist' <= MaxHist

Spec == Init /\ [][Next]_vars

----------------------------------------------------------------------------
(* server.js: the registry alone, 'register' and 'disconnect' events with  *)
(* fields that may be absent.                                              *)

RegData ==
    [nickname : {StrA, StrUpperA, StrB}, gender : Genders, province : {StrX, StrY}]
    \cup {[nickname |-> Undefined, gender |-> StrM, province |-> StrX],
          [nickname |-> StrA, gender |-> Undefined, province |-> StrX],
          [nickname |-> StrA, gender |-> StrM, province |-> Undefined]}

NextReg ==
    \/ \E c \in Conns : Connect(c)
    \/ \E c \in Conns : Disconnect(c)
    \/ \E c \in Conns, data \in RegData :
          used.regs < MaxRegs /\ Register(c, data)

SpecReg == Init /\ [][NextReg]_vars

----------------------------------------------------------------------------
(* server.js: the rate gate in front of routing, two connections sending   *)
(* several messages each.                                                  *)

GateConns == {1, 2}
GateNicknames == {StrA, StrB}
GateData == [nickname : GateNicknames, gender : Genders, province : {StrX}]

NextGate ==
    \/ \E c \in GateConns : Connect(c)
    \/ \E c \in GateConns : Disconnect(c)
    \/ \E c \in GateConns, data \in GateData :
          used.regs < MaxGateRegs /\ Register(c, data)
    \/ \E c \in GateConns, text \in Texts :
          used.msgs < MaxGateMsgs /\ ChatMessage(c, text) /\ TotalHist' <= MaxGateHist
    \/ \E c \in GateConns, file \in Texts :
          used.msgs < MaxGateMsgs /\ ImageMessage(c, file) /\ TotalHist' <= MaxGateHist
    \/ \E c \in GateConns, to \in GateNicknames, text \in Texts :
          used.msgs < MaxGateMsgs /\ PrivateMessage(c, to, text) /\ TotalHist' <= MaxGateHist
    \/ \E c \in GateConns, to \in GateNicknames, file \in Texts :
          used.msgs < MaxGateMsgs /\ PrivateImageMessage(c, to, file) /\ TotalHist' <= MaxGateHist

SpecGate == Init /\ [][NextGate]_vars

----------------------------------------------------------------------------
(* server.js: rooms and their histories, connections that register in two  *)
(* regions and send room messages.                                         *)

RoomConns == {1, 2}
RoomData == [nickname : {StrA, StrB}, gender : Genders, province : {StrX, StrY}]

NextRoom ==
    \/ \E c \in RoomConns : Connect(c)
    \/ \E c \in RoomConns : Disconnect(c)
    \/ \E c \in RoomConns, data \in RoomData :
          used.regs < MaxRoomRegs /\ Register(c, data)
    \/ \E c \in RoomConns, text \in Texts :
          used.msgs < MaxRoomMsgs /\ ChatMessage(c, text)
    \/ \E c \in RoomConns, file \in Texts :
          used.msgs < MaxRoomMsgs /\ ImageMessage(c, file)

SpecRoom == Init /\ [][NextRoom]_vars

----------------------------------------------------------------------------
(* server.js: the life of a connection, from 'connection' over 'register'  *)
(* and message events to 'disconnect', at one instant.                     *)

LifeConns == {1, 2}
LifeData == [nickname : {StrA, StrUpperA}, gender : Genders, province : {StrX}]

NextLife ==
    \/ \E c \in LifeConns : Connect(c)
    \/ \E c \in LifeConns : Disconnect(c)
    \/ \E c \in LifeConns, data \in LifeData :
          used.regs < MaxLifeRegs /\ Register(c, data)
    \/ \E c \in LifeConns : CheckRateLimit(c)

SpecLife == Init /\ [][NextLife]_vars

----------------------------------------------------------------------------
(* server.js: direct histories, two connections whose nicknames may hold   *)
(* a '-' and which register and send direct messages.                      *)

KeyConns == {1, 2}
KeyNicknames == {StrA, StrC, StrADashB, StrBDashC}
KeyData == [nickname : KeyNicknames, gender : Genders, province : {StrX}]

NextKey ==
    \/ \E c \in KeyConns : Connect(c)
    \/ \E c \in KeyConns, data \in KeyData :
          used.regs < MaxKeyRegs /\ Register(c, data)
    \/ \E c \in KeyConns, to \in KeyNicknames, text \in Texts :
          used.msgs < MaxKeyMsgs /\ PrivateMessage(c, to, text)

SpecKey == Init /\ [][NextKey]_vars

----------------------------------------------------------------------------
(* server.js: checkRateLimit of one connection over time.                  *)

RateConns == {1}
RateSteps == {1, PERIOD_SECONDS * 1000 - 1, MUTE_DURATION_MS - PERIOD_SECONDS * 1000}

NextRate ==
    \/ \E c \in RateConns : Connect(c)
    \/ \E c \in RateConns : Disconnect(c)
    \/ \E c \in RateConns : CheckRateLimit(c)
    \/ \E d \in RateSteps : used.ticks < MaxRateTicks /\ Tick(d)

SpecRate == Init /\ [][NextRate]_vars

----------------------------------------------------------------------------
(* part_000: io.on('connection') and socket.on('disconnect').              *)

PriorPart(c) ==
    IF ObjHas(connectedUsers, c) THEN ObjGet(connectedUsers, c) ELSE NoUser

PartConnect(c) ==
    /\ sockets[c] = "new"
    /\ \A b \in Conns : b < c => sockets[b] # "new"
    /\ sockets' = [sockets EXCEPT ![c] = "open"]
    /\ rooms' = [rooms EXCEPT ![c] = {SocketId(c)}]
    /\ out' = <<>>
    /\ last' = Event("connection", c, <<>>, NoUser, TRUE)
    /\ UNCHANGED <<now, used, calls>>
    /\ UNCHANGED serverVars
    /\ UNCHANGED partVars

isNicknameStillInUseByAnotherSocket(users, c, nickname) ==
    \E i \in DOMAIN users : users[i].val.nickname = nickname /\ users[i].key # c

\* The state after socket c is closed and its 'disconnect' handler has run,
\* starting from the emissions before.
partDisconnect(c, before) ==
    IF ObjHas(connectedUsers, c)
    THEN LET user == ObjGet(connectedUsers, c)
             users1 == ObjDelete(connectedUsers, c)
         IN [sockets |-> [sockets EXCEPT ![c] = "closed"],
             rooms |-> [rooms EXCEPT ![c] = {}],
             connectedUsers |-> users1,
             nicknameToSocketId |->
                 IF ~isNicknameStillInUseByAnotherSocket(users1, c, user.nickname)
                 THEN MapDelete(nicknameToSocketId, user.nickname)
                 ELSE nicknameToSocketId,
             out |-> before \o
                     <<EmitAll(Connected \ {c}, "user list", ObjValues(users1)),
                       EmitAll(Connected \ {c}, "status message",
                               [kind |-> "left", nickname |-> user.nickname])>>]
    ELSE [sockets |-> [sockets EXCEPT ![c] = "closed"],
          rooms |-> [rooms EXCEPT ![c] = {}],
          connectedUsers |-> connectedUsers,
          nicknameToSocketId |-> nicknameToSocketId,
          out |-> before]

PartDisconnect(c) ==
    /\ sockets[c] = "open"
    /\ LET r == partDisconnect(c, <<>>)
       IN /\ sockets' = r.sockets
          /\ rooms' = r.rooms
          /\ connectedUsers' = r.connectedUsers
          /\ nicknameToSocketId' = r.nicknameToSocketId
          /\ out' = r.out
    /\ last' = Event("disconnect", c, <<>>, PriorPart(c), TRUE)
    /\ UNCHANGED <<now, used, calls>>
    /\ UNCHANGED serverVars

----------------------------------------------------------------------------
(* part_000: socket.on('user_info').                                       *)

UserInfo(c, data) ==
    /\ sockets[c] = "open"
    /\ LET nickname == data.nickname
           sex == data.sex
           province == data.province
           user == [id |-> c, nickname |-> nickname, sex |-> sex,
                    province |-> province]
           closing(before) ==
               LET r == partDisconnect(c, before)
               IN /\ sockets' = r.sockets
                  /\ rooms' = r.rooms
                  /\ connectedUsers' = r.connectedUsers
                  /\ nicknameToSocketId' = r.nicknameToSocketId
                  /\ out' = r.out
       IN IF Falsy(nickname) \/ Falsy(sex) \/ Falsy(province)
          THEN closing(<<EmitSocket(c, "status message", [kind |-> "incomplete"])>>)
          ELSE IF MapHas(nicknameToSocketId, nickname)
          THEN IF nicknameToSocketId[nickname] # c
               THEN closing(<<EmitSocket(c, "nickname in use", nickname)>>)
               ELSE /\ connectedUsers' =
                         IF /\ ObjHas(connectedUsers, c)
                            /\ \/ ObjGet(connectedUsers, c).sex # sex
                               \/ ObjGet(connectedUsers, c).province # province
                         THEN ObjSet(connectedUsers, c, user)
                         ELSE connectedUsers
                    /\ out' = <<>>
                    /\ UNCHANGED <<sockets, rooms, nicknameToSocketId>>
          ELSE LET users1 == ObjSet(connectedUsers, c, user)
                   rooms1 == [rooms EXCEPT ![c] = @ \cup {province}]
               IN /\ connectedUsers' = users1
                  /\ nicknameToSocketId' = MapSet(nicknameToSocketId, nickname, c)
                  /\ rooms' = rooms1
                  /\ out' = <<EmitAll(Connected, "user list", ObjValues(users1)),
                              EmitSocket(c, "info accepted", province),
                              EmitRoom(rooms1, province, "status message",
                                       [kind |-> "joined", nickname |-> nickname])>>
                  /\ UNCHANGED sockets
    /\ last' = Event("user_info", c, data, PriorPart(c), TRUE)
    /\ used' = [used EXCEPT !.regs = @ + 1]
    /\ UNCHANGED <<now, calls>>
    /\ UNCHANGED serverVars

----------------------------------------------------------------------------
(* part_000: socket.on('chat message') and socket.on('private message').   *)

PartChatMessage(c, text) ==
    /\ sockets[c] = "open"
    /\ out' = IF ~ObjHas(connectedUsers, c) THEN <<>>
              ELSE LET user == ObjGet(connectedUsers, c)
                   IN <<EmitRoom(rooms, user.province, "chat message",
                                 [sender |-> user.nickname, text |-> text,
                                  timestamp |-> TimeString(now),
                                  room |-> user.province])>>
    /\ last' = Event("chat message", c, [body |-> text], PriorPart(c), TRUE)
    /\ used' = [used EXCEPT !.msgs = @ + 1]
    /\ UNCHANGED <<sockets, rooms, now, calls>>
    /\ UNCHANGED serverVars
    /\ UNCHANGED partVars

PartPrivateMessage(c, to, text) ==
    /\ sockets[c] = "open"
    /\ out' = IF ~ObjHas(connectedUsers, c) THEN <<>>
              ELSE IF MapHas(nicknameToSocketId, to)
              THEN LET user == ObjGet(connectedUsers, c)
                       privateMessage == [from |-> user.nickname, to |-> to,
                                          text |-> text,
                                          timestamp |-> TimeString(now)]
                   IN <<EmitRoom(rooms, SocketId(nicknameToSocketId[to]),
                                 "private message", privateMessage),
                        EmitRoom(rooms, SocketId(c), "private message",
                                 privateMessage)>>
              ELSE <<EmitSocket(c, "status message",
                                [kind |-> "not found", nickname |-> to])>>
    /\ last' = Event("private message", c, [to |-> to, body |-> text],
                     PriorPart(c), TRUE)
    /\ used' = [used EXCEPT !.msgs = @ + 1]
    /\ UNCHANGED <<sockets, rooms, now, calls>>
    /\ UNCHANGED serverVars
    /\ UNCHANGED partVars

----------------------------------------------------------------------------
(* part_000: the specification.                                            *)

Sexes == {StrM, StrF}
PartNicknames == {StrA, StrUpperA, StrB, Undefined}
PartProvinces == {StrX, StrY}

UserInfoData ==
    [nickname : PartNicknames, sex : Sexes, province : PartProvinces]

NextPart ==
    \/ \E c \in Conns : PartConnect(c)
    \/ \E c \in Conns : PartDisconnect(c)
    \/ \E c \in Conns, data \in UserInfoData :
          used.regs < MaxPartRegs /\ UserInfo(c, data)
    \/ \E c \in Conns, text \in Texts :
          used.msgs < MaxPartMsgs /\ PartChatMessage(c, text)
    \/ \E c \in Conns, to \in PartNicknames \ {Undefined}, text \in Texts :
          used.msgs < MaxPartMsgs /\ PartPrivateMessage(c, to, text)

SpecPart == Init /\ [][NextPart]_vars

----------------------------------------------------------------------------
(* Properties.                                                             *)

MsgOps == {"chat message", "image message", "private message",
           "private image message"}
DirectOps == {"private message", "private image message"}

\* the emissions of event ev in o, in order
Emitted(o, ev) == SelectSeq(o, LAMBDA e : e.ev = ev)

\* some connection received a room or direct message
Forwarded(o) ==
    \E i \in DOMAIN o :
        o[i].ev \in {"chat message", "private message"} /\ o[i].rcpt # {}

\* C1: onlineUsers never holds two profiles of different connections whose
\* nicknames are equal ignoring case, nor two profiles of one connection.
C1_UniqueNicknames ==
    \A i, j \in DOMAIN onlineUsers :
        i # j => /\ onlineUsers[i].key # onlineUsers[j].key
                 /\ toLowerCase(onlineUsers[i].val.nickname)
                        # toLowerCase(onlineUsers[j].val.nickname)

\* two profiles are active and a third connection that asked for "A" while
\* another connection holds "a" was turned away
C1_Witness ==
    /\ last.op = "register"
    /\ last.arg.nickname = StrUpperA
    /\ Len(onlineUsers) = 2
    /\ \E i \in DOMAIN onlineUsers :
          onlineUsers[i].val.nickname = StrA /\ onlineUsers[i].key # last.id
    /\ sockets[last.id] = "closed"

\* C2: in part_000, a 'user_info' whose nickname equals, ignoring case, the
\* nickname of a profile held by another connection gets 'nickname in use',
\* the connection is closed and has no profile.
C2_NicknameInUseIgnoringCase ==
    (/\ last.op = "user_info"
     /\ \E i \in DOMAIN connectedUsers :
           /\ connectedUsers[i].key # last.id
           /\ toLowerCase(connectedUsers[i].val.nickname)
                  = toLowerCase(last.arg.nickname))
    => /\ Emitted(out, "nickname in use") # <<>>
       /\ sockets[last.id] = "closed"
       /\ ~ObjHas(connectedUsers, last.id)

\* C3: a registered connection that sends 'register' again with the
\* nickname it holds gets no 'nickname in use', stays connected, and has
\* exactly one entry in onlineUsers and in the broadcast user list.
C3_ReRegisterSameNickname ==
    (/\ last.op = "register"
     /\ last.prior # NoUser
     /\ sanitizeHtml(last.arg.nickname) = last.prior.nickname)
    => /\ Emitted(out, "nickname in use") = <<>>
       /\ sockets[last.id] = "open"
       /\ Cardinality({i \in DOMAIN onlineUsers :
                          onlineUsers[i].key = last.id}) = 1
       /\ \A k \in DOMAIN out :
             out[k].ev = "user list" =>
                Cardinality({i \in DOMAIN out[k].data :
                    out[k].data[i].socketId = SocketId(last.id)}) = 1

C4_Step ==
    (last'.op \in MsgOps /\ last'.prior = NoUser)
    => /\ ~Forwarded(out')
       /\ provinceChatHistory' = provinceChatHistory
       /\ privateChatHistory' = privateChatHistory

\* C4: a message event of a connection without a profile is never forwarded
\* to a connection and never appended to a history.
C4_UnregisteredNeverForwarded == [][C4_Step]_vars

C5_Step ==
    (last'.op \in MsgOps /\ ~last'.ok)
    => /\ provinceChatHistory' = provinceChatHistory
       /\ privateChatHistory' = privateChatHistory
       /\ Len(out') = 1
       /\ out'[1].ev = "status message"
       /\ out'[1].room = SocketId(last'.id)
       /\ last'.id \in out'[1].rcpt

\* C5: a message for which checkRateLimit returns false is appended to no
\* history and emitted to nobody; the one emission of the handler is a
\* status message addressed to the sender.
C5_RejectedNeverRouted == [][C5_Step]_vars

\* a registered, muted sender whose room message would have reached
\* another connection of its room
C5_Witness ==
    /\ last.op \in {"chat message", "image message"}
    /\ ~last.ok
    /\ last.prior # NoUser
    /\ out[1].data.kind = "muted"
    /\ \E c \in Conns : c # last.id /\ last.prior.province \in rooms[c]

\* C6: from a clear connection, of three messages within one second the
\* first two are accepted and the third is rejected and mutes the connection
\* until its time plus MUTE_DURATION_MS; a message sent while a mute
\* deadline is ahead is rejected and leaves the deadline where it is.
C6_ThirdMessageMutes ==
    \A c \in Conns :
        LET L == calls[c]
        IN /\ \A i \in DOMAIN L :
                 (i + 2 <= Len(L) /\ L[i].clear
                  /\ L[i + 2].t - L[i].t < PERIOD_SECONDS * 1000)
                 => /\ L[i].ok
                    /\ L[i + 1].ok
                    /\ ~L[i + 2].ok
                    /\ L[i + 2].until = L[i + 2].t + MUTE_DURATION_MS
           /\ \A i \in DOMAIN L :
                 (L[i].before # -1 /\ L[i].t < L[i].before)
                 => ~L[i].ok /\ L[i].until = L[i].before

\* the latest four calls of a connection: two accepted messages from clear,
\* a third 999 ms after the first that is rejected and starts the mute, and
\* a fourth before the deadline that is rejected
C6_Witness ==
    \E c \in Conns :
        LET L == calls[c]
        IN /\ Len(L) = 4
           /\ L[1].clear /\ L[1].ok /\ L[2].ok
           /\ L[3].t - L[1].t = PERIOD_SECONDS * 1000 - 1
           /\ ~L[3].ok
           /\ L[3].until = L[3].t + MUTE_DURATION_MS
           /\ ~L[4].ok /\ L[4].t > L[3].t /\ L[4].t < L[3].until
           /\ MapHas(MUTED_USERS, c) /\ MUTED_USERS[c] = L[3].until

\* C7: the first message of a muted connection at or after its deadline is
\* accepted, removes its MUTED_USERS entry and leaves a window holding only
\* that message's timestamp.
C7_AcceptedAfterMute ==
    \A c \in Conns :
        \A i \in DOMAIN calls[c] :
            LET e == calls[c][i]
            IN (e.before # -1 /\ e.t >= e.before)
               => e.ok /\ e.until = -1 /\ e.window = <<e.t>>

\* a message sent exactly at the deadline, the connection still open
C7_Witness ==
    \E c \in Conns :
        /\ calls[c] # <<>>
        /\ LET e == calls[c][Len(calls[c])]
           IN e.before # -1 /\ e.t = e.before
        /\ ~MapHas(MUTED_USERS, c)
        /\ MapHas(MESSAGE_LIMITS, c)

\* the profile of the recipient named by the last direct message
DirectRecipient == recipientUser(onlineUsers, last.arg.to)

\* C8: an accepted direct message from a registered user A to the nickname
\* of a different registered user B is delivered exactly twice, once to B's
\* connection and once to A's, to nobody else.
C8_DirectEcho ==
    (/\ last.op \in DirectOps
     /\ last.ok
     /\ last.prior # NoUser
     /\ DirectRecipient # NoUser
     /\ DirectRecipient.socketId # SocketId(last.id))
    => LET pm == Emitted(out, "private message")
       IN /\ Len(pm) = 2
          /\ \E b \in Conns : SocketId(b) = DirectRecipient.socketId
                              /\ pm[1].rcpt = {b}
          /\ pm[2].rcpt = {last.id}

C9_Step ==
    (/\ last'.op \in DirectOps
     /\ last'.prior # NoUser
     /\ last'.arg.to = last'.prior.nickname)
    => /\ Emitted(out', "private message") = <<>>
       /\ privateChatHistory' = privateChatHistory
       /\ \E k \in DOMAIN out' : out'[k].ev = "status message"
                                 /\ last'.id \in out'[k].rcpt

\* C9: a direct message a registered user addresses to its own nickname is
\* a no-op: nothing is delivered, nothing is appended, the sender gets a
\* status message.
C9_SelfMessageRefused == [][C9_Step]_vars

C10_Step ==
    (/\ last'.op \in DirectOps
     /\ last'.prior # NoUser
     /\ recipientUser(onlineUsers, last'.arg.to) = NoUser)
    => /\ Emitted(out', "private message") = <<>>
       /\ privateChatHistory' = privateChatHistory
       /\ \E k \in DOMAIN out' : out'[k].ev = "status message"
                                 /\ last'.id \in out'[k].rcpt

\* C10: a direct message of a registered user to a nickname nobody holds
\* emits no 'private message', appends nothing, and the sender gets a status
\* message.
C10_RecipientNotFound == [][C10_Step]_vars

RoomOps == {"chat message", "image message"}

\* getRoomHistory: the messages recorded for a room, none if it has no array
RoomHistory(h, room) == IF MapHas(h, room) THEN h[room] ELSE <<>>

C11_Step ==
    /\ (last'.op \in RoomOps /\ last'.ok)
       => LET m == Emitted(out', "chat message")[1].data
          IN provinceChatHistory'
                = MapSet(provinceChatHistory, m.room,
                         Append(RoomHistory(provinceChatHistory, m.room), m))
    /\ (last'.op = "register" /\ ObjHas(onlineUsers', last'.id))
       => LET R == ObjGet(onlineUsers', last'.id).province
              ph == Emitted(out', "province history")
              received == IF ph = <<>> THEN <<>> ELSE ph[1].data.history
          IN /\ received = RoomHistory(provinceChatHistory, R)
             /\ Len(ph) = IF RoomHistory(provinceChatHistory, R) = <<>> THEN 0 ELSE 1
             /\ \A k \in DOMAIN ph : ph[k].rcpt = {last'.id} /\ ph[k].data.room = R
             /\ Emitted(out', "chat message") = <<>>
             /\ provinceChatHistory' = provinceChatHistory

\* C11: an accepted room message is appended at the end of its room's
\* history; a successful register into region R is answered, within the
\* register handler and with no 'chat message' emitted by it, by the N
\* messages of R's history in the order they were appended, in one
\* 'province history' event to the registrant when N > 0.
C11_HistoryReplay == [][C11_Step]_vars

\* a connection has just registered into a region whose history held a text
\* message followed by an image message, and got the two in that order
C11_Witness ==
    /\ last.op = "register"
    /\ ObjHas(onlineUsers, last.id)
    /\ LET ph == Emitted(out, "province history")
       IN /\ Len(ph) = 1
          /\ Len(ph[1].data.history) = 2
          /\ ph[1].data.history[1].type = "text"
          /\ ph[1].data.history[2].type = "image"
          /\ ph[1].data.history = provinceChatHistory[last.arg.province]

\* no open connection holds nickname, compared as register compares
NicknameFree(nickname) ==
    \A i \in DOMAIN onlineUsers :
        sockets[onlineUsers[i].key] = "open"
        => toLowerCase(onlineUsers[i].val.nickname) # toLowerCase(nickname)

C12_Step ==
    /\ \A c \in Conns :
          sockets'[c] = "closed"
          => /\ ~ObjHas(onlineUsers', c)
             /\ ~MapHas(MESSAGE_LIMITS', c)
             /\ ~MapHas(MUTED_USERS', c)
             /\ \A k \in DOMAIN out' :
                   out'[k].ev = "user list"
                   => \A i \in DOMAIN out'[k].data :
                         out'[k].data[i].socketId # SocketId(c)
    /\ \A c \in Conns :
          (sockets[c] = "open" /\ sockets'[c] = "closed" /\ ObjHas(onlineUsers, c))
          => Emitted(out', "user list") # <<>>
    /\ (last'.op = "register" /\ NicknameFree(sanitizeHtml(last'.arg.nickname)))
       => /\ sockets'[last'.id] = "open"
          /\ ObjHas(onlineUsers', last'.id)
          /\ ObjGet(onlineUsers', last'.id).nickname
                = sanitizeHtml(last'.arg.nickname)
          /\ Emitted(out', "info accepted") # <<>>

\* C12: a closed connection has no profile, no MESSAGE_LIMITS entry and no
\* MUTED_USERS entry and is in no user list that is broadcast, the close of a
\* registered connection broadcasts a user list, and a register succeeds
\* whenever no open connection holds the nickname, so the nickname of a
\* closed connection can be registered again.
C12_DisconnectReleases == [][C12_Step]_vars

\* a registered connection that was muted has just been closed by the server
\* on a rejected register, and another connection is open to take its
\* nickname
C12_Witness ==
    /\ last.op = "register"
    /\ last.prior # NoUser
    /\ sockets[last.id] = "closed"
    /\ calls[last.id] # <<>>
    /\ calls[last.id][Len(calls[last.id])].until > now
    /\ NicknameFree(last.prior.nickname)
    /\ \E c \in Conns : c # last.id /\ sockets[c] = "open"
                         /\ ~ObjHas(onlineUsers, c)

C13_Step ==
    (last'.op \in RoomOps /\ last'.ok /\ last'.prior # NoUser)
    => LET R == last'.prior.province
       IN /\ Len(out') = 1
          /\ out'[1].ev = "chat message"
          /\ out'[1].data.room = R
          /\ out'[1].data.sender = last'.prior.nickname
          /\ out'[1].rcpt = {c \in Conns : R \in rooms[c]}
          /\ \A c \in Conns : R \notin rooms'[c] => c \notin out'[1].rcpt

\* C13: an accepted 'chat message' or 'image message' of a user registered
\* in region R is emitted once, tagged room = R, to the connections joined to
\* room R and to no connection that is not joined to R.
C13_RoomDelivery == [][C13_Step]_vars

\* a user in one region has sent an accepted room message while the other
\* connection, registered in another region and never joined to the
\* sender's, was open; only the sender received it
C13_Witness ==
    /\ last.op \in RoomOps
    /\ last.ok
    /\ last.prior # NoUser
    /\ out[1].rcpt = {last.id}
    /\ \E c \in Conns :
          /\ c # last.id
          /\ ObjHas(onlineUsers, c)
          /\ ObjGet(onlineUsers, c).province # last.prior.province
          /\ last.prior.province \notin rooms[c]

\* the region rooms of connection c: every room it is joined to but the one
\* socket.io names after its own id
RegionRooms(c) == rooms[c] \ {SocketId(c)}

\* C14: a registered live connection is joined to exactly one region room,
\* the region of its current profile.
C14_OneRegionRoom ==
    \A c \in Conns :
        (sockets[c] = "open" /\ ObjHas(onlineUsers, c))
        => RegionRooms(c) = {ObjGet(onlineUsers, c).province}

C15_Step ==
    (/\ last'.op = "register"
     /\ \/ Falsy(last'.arg.nickname)
        \/ Falsy(last'.arg.gender)
        \/ Falsy(last'.arg.province))
    => /\ out' # <<>>
       /\ out'[1].rcpt = {last'.id}
       /\ sockets'[last'.id] = "closed"
       /\ ~ObjHas(onlineUsers', last'.id)
       /\ rooms'[last'.id] = {}
       /\ \A k \in DOMAIN out' :
             out'[k].ev = "user list"
             => \A i \in DOMAIN out'[k].data :
                   out'[k].data[i].socketId # SocketId(last'.id)

\* C15: a 'register' whose nickname, gender or province is missing or empty
\* is answered by a notice to the client and a forced close, and leaves the
\* connection with no profile, in no room and in no user list.
C15_IncompleteRegisterRejected == [][C15_Step]_vars

----------------------------------------------------------------------------
(* The admit algorithm of the rate limiter's contract, steps 1-5, on the   *)
(* state [window, muteUntil] of one connection (muteUntil = -1: not        *)
(* muted).  closed: an entry exactly PERIOD old is still in the window.    *)

AdmitInit == [ok |-> TRUE, window |-> <<>>, muteUntil |-> -1]

admitWindow(st, t, closed) ==
    IF st.muteUntil # -1 /\ t < st.muteUntil
    THEN [ok |-> FALSE, window |-> st.window, muteUntil |-> st.muteUntil]
    ELSE LET cleared == IF st.muteUntil # -1 THEN <<>> ELSE st.window
             window == SelectSeq(Append(cleared, t),
                           LAMBDA ts : IF closed
                                       THEN t - ts <= PERIOD_SECONDS * 1000
                                       ELSE t - ts < PERIOD_SECONDS * 1000)
         IN IF Len(window) > MAX_MESSAGES_PER_PERIOD
            THEN [ok |-> FALSE, window |-> window,
                  muteUntil |-> t + MUTE_DURATION_MS]
            ELSE [ok |-> TRUE, window |-> window, muteUntil |-> -1]

\* step 3 as written: drop the entries older than PERIOD
admit(st, t) == admitWindow(st, t, TRUE)

\* step 3 dropping the entries that are PERIOD old or older
admitHalfOpen(st, t) == admitWindow(st, t, FALSE)

\* the state of admit after the first n calls of the log L
RECURSIVE AdmitRun(_, _, _)
AdmitRun(L, n, closed) ==
    IF n = 0 THEN AdmitInit
    ELSE admitWindow(AdmitRun(L, n - 1, closed), L[n].t, closed)

\* the logs that hold every call of their connection
CompleteLog(c) == Len(calls[c]) < MaxCalls

\* C16 as claimed: on every call sequence checkRateLimit returns the
\* decision of admit and sets the mute deadline of admit, where admit drops
\* the entries older than PERIOD.
C16_RefinesAdmit ==
    \A c \in Conns :
        CompleteLog(c)
        => \A n \in DOMAIN calls[c] :
              LET st == AdmitRun(calls[c], n, TRUE)
              IN /\ st.ok = calls[c][n].ok
                 /\ st.muteUntil = calls[c][n].until

\* C16 amended: on every call sequence checkRateLimit returns the decision
\* of admit and sets the mute deadline of admit, where admit drops the
\* entries that are PERIOD old or older.
C16_RefinesAdmitHalfOpen ==
    \A c \in Conns :
        CompleteLog(c)
        => \A n \in DOMAIN calls[c] :
              LET st == AdmitRun(calls[c], n, FALSE)
              IN /\ st.ok = calls[c][n].ok
                 /\ st.muteUntil = calls[c][n].until

\* two accepted messages at one instant and a third exactly PERIOD later,
\* accepted
C16_Witness ==
    \E c \in Conns :
        LET L == calls[c]
        IN /\ CompleteLog(c)
           /\ Len(L) = 3
           /\ L[1].ok /\ L[2].ok /\ L[2].t = L[1].t
           /\ L[3].t = L[1].t + PERIOD_SECONDS * 1000
           /\ L[3].ok

----------------------------------------------------------------------------
(* part_000: the two registries.                                           *)

\* C17: nicknameToSocketId and connectedUsers agree: every entry of
\* nicknameToSocketId names a registered connection whose profile has that
\* nickname, every profile's nickname maps to its connection, and no
\* nickname maps to a closed connection.
C17_RegistriesAgree ==
    /\ \A n \in DOMAIN nicknameToSocketId :
          /\ ObjHas(connectedUsers, nicknameToSocketId[n])
          /\ ObjGet(connectedUsers, nicknameToSocketId[n]).nickname = n
    /\ \A i \in DOMAIN connectedUsers :
          /\ MapHas(nicknameToSocketId, connectedUsers[i].val.nickname)
          /\ nicknameToSocketId[connectedUsers[i].val.nickname]
                = connectedUsers[i].key
    /\ \A n \in DOMAIN nicknameToSocketId :
          sockets[nicknameToSocketId[n]] # "closed"

C18_Step ==
    (last'.op \in {"user_info", "disconnect"})
    => LET lists == Emitted(out', "user list")
       IN /\ \A k \in DOMAIN lists :
                lists[k].data = ObjValues(connectedUsers')
          /\ connectedUsers' # connectedUsers
             => /\ lists # <<>>
                /\ lists[Len(lists)].via = "all"

\* C18: a 'user_info' or 'disconnect' handler that changes connectedUsers
\* broadcasts the new contents as a user list to all connections, and no
\* handler broadcasts anything else as a user list; so the list broadcast
\* last equals connectedUsers after every handler.
C18_UserListCurrent == [][C18_Step]_vars

----------------------------------------------------------------------------
(* server.js: the rate state of a muted connection.                        *)

\* call i of the log L started a mute: it found no deadline ahead and was
\* rejected
StartsMute(L, i) ==
    /\ ~L[i].ok
    /\ L[i].before = -1 \/ L[i].t >= L[i].before

C19_Step ==
    /\ (/\ last'.op \in MsgOps \cup {"checkRateLimit"}
        /\ MapHas(MUTED_USERS, last'.id)
        /\ now < MUTED_USERS[last'.id])
       => /\ ~last'.ok
          /\ MUTED_USERS' = MUTED_USERS
          /\ MESSAGE_LIMITS' = MESSAGE_LIMITS
    /\ \A c \in Conns :
          \A i, j \in DOMAIN calls'[c] :
              (/\ i < j
               /\ StartsMute(calls'[c], i)
               /\ calls'[c][j].t < calls'[c][i].t + MUTE_DURATION_MS)
              => /\ ~calls'[c][j].ok
                 /\ calls'[c][j].until = calls'[c][i].t + MUTE_DURATION_MS

\* C19: a message of a connection whose mute deadline is ahead is rejected
\* and changes neither MUTED_USERS nor MESSAGE_LIMITS; every message sent
\* less than MUTE_DURATION_MS after the message that started the mute finds
\* and leaves the deadline at that message's time plus MUTE_DURATION_MS.
C19_MutedFrame == [][C19_Step]_vars

\* a mute was started and two later messages, at two later times, were sent
\* during it; the deadline is where the first rejection put it
C19_Witness ==
    \E c \in Conns :
        \E i, j, k \in DOMAIN calls[c] :
            /\ i < j /\ j < k /\ k = Len(calls[c])
            /\ StartsMute(calls[c], i)
            /\ calls[c][i].t < calls[c][j].t
            /\ calls[c][j].t < calls[c][k].t
            /\ calls[c][k].t < calls[c][i].t + MUTE_DURATION_MS
            /\ MapHas(MUTED_USERS, c)
            /\ MUTED_USERS[c] = calls[c][i].t + MUTE_DURATION_MS
            /\ last.op = "checkRateLimit"

\* C20: MESSAGE_LIMITS and MUTED_USERS have entries of open connections
\* only, and no MESSAGE_LIMITS entry holds more than MAX_MESSAGES_PER_PERIOD
\* timestamps.
C20_RateStateOfOpenConnections ==
    /\ \A c \in DOMAIN MESSAGE_LIMITS :
          /\ c \in Conns
          /\ sockets[c] = "open"
          /\ Len(MESSAGE_LIMITS[c]) <= MAX_MESSAGES_PER_PERIOD
    /\ \A c \in DOMAIN MUTED_USERS :
          c \in Conns /\ sockets[c] = "open"

\* a connection that was muted is closed, and an open one holds a full
\* window and a mute deadline
C20_Witness ==
    /\ \E c \in Conns :
          /\ sockets[c] = "closed"
          /\ calls[c] # <<>>
          /\ calls[c][Len(calls[c])].until > now
    /\ \E c \in Conns :
          /\ sockets[c] = "open"
          /\ MapHas(MESSAGE_LIMITS, c)
          /\ Len(MESSAGE_LIMITS[c]) = MAX_MESSAGES_PER_PERIOD
          /\ MapHas(MUTED_USERS, c)

----------------------------------------------------------------------------
(* server.js: the keys of the direct histories.                            *)

\* the unordered pair of nicknames a stored direct message is between
PairOf(m) == {m.sender, m.to}

\* C21: getPrivateChatId is a canonical key of the unordered pair of
\* nicknames: two stored direct messages are in the same direct history
\* exactly if they are between the same two nicknames, and every message
\* is stored under the key of its pair in either order.
C21_CanonicalKey ==
    \A k1, k2 \in DOMAIN privateChatHistory :
        \A i \in DOMAIN privateChatHistory[k1], j \in DOMAIN privateChatHistory[k2] :
            LET m1 == privateChatHistory[k1][i]
                m2 == privateChatHistory[k2][j]
            IN /\ k1 = getPrivateChatId(m1.sender, m1.to)
               /\ k1 = getPrivateChatId(m1.to, m1.sender)
               /\ (k1 = k2) <=> (PairOf(m1) = PairOf(m2))

====
